---- MODULE Spec2Model ----
(***************************************************************************)
(* Model of the counting semaphore of src/semaphore.ts and of the two ways *)
(* the repository drives it: free sequences of down()/up() calls (the      *)
(* unit tests) and tasks that each run down() -> work -> up() (the usage   *)
(* demo and the concurrency tests).                                        *)
(*                                                                         *)
(* JavaScript is single threaded: down() and up() each run to completion,  *)
(* so each is one action.  A caller that awaits down() continues in a      *)
(* later job of the FIFO microtask queue (jobs), both when down() returned *)
(* undefined and when the promise it returned was resolved by up().        *)
(***************************************************************************)
EXTENDS Integers, Sequences, FiniteSets

\* ---- bounds ----
NTasks == 3      \* number of down() callers
MaxCap == 2      \* largest initial capacity
MaxNeg == 2      \* most negative initial capacity is -MaxNeg
MaxUps == 4      \* up() calls made by the free driver

Tasks == 1..NTasks

VARIABLES
    capacity,      \* the constructor argument (never changes)
    capacityLeft,  \* Semaphore.capacityLeft
    queue,         \* Semaphore.queue: resolvers, identified by their caller
    status,        \* where each caller is
    jobs,          \* microtask queue: continuations ready to run
    results,       \* callers in the order their continuation ran
    arrivals,      \* history: callers in the order their down() suspended
    ups,           \* history: number of up() calls made so far
    upsAtDown,     \* history: value of ups when the caller called down()
    posAtQueue,    \* history: position in queue the caller was pushed at
    streak         \* history: the current run of up() calls on an empty queue

vars == <<capacity, capacityLeft, queue, status, jobs, results, arrivals,
          ups, upsAtDown, posAtQueue, streak>>

NoStreak == [base |-> 0, n |-> 0, d |-> 0, ok |-> TRUE]

\* ---- Semaphore ----

\* constructor(capacity): no validation of the argument
constructor(c) == [capacityLeft |-> c, queue |-> <<>>]

\* the test of down(): this.capacityLeft > 0
CanAcquireOffByOne(c) == c >= 0
CanAcquireStrict(c) == c > 1
CanAcquire(c) == c > 0

\* this.queue.shift(): the element taken and what is left
shiftLast(q) == [next |-> q[Len(q)], rest |-> SubSeq(q, 1, Len(q) - 1)]
shift(q) == [next |-> Head(q), rest |-> Tail(q)]

\* history kept along a down() call
StreakAfterDown(imm) ==
    IF streak.n > 0 /\ streak.d < streak.n
    THEN [streak EXCEPT !.d = @ + 1, !.ok = @ /\ imm]
    ELSE NoStreak

\* history kept along an up() call
StreakAfterUp ==
    IF queue # <<>> THEN NoStreak
    ELSE IF streak.n > 0 /\ streak.d = 0
         THEN [streak EXCEPT !.n = @ + 1]
         ELSE [base |-> capacityLeft, n |-> 1, d |-> 0, ok |-> TRUE]

\* await semaphore.down(), as far as the first suspension of the caller
down(t) ==
    /\ status[t] = "idle"
    /\ upsAtDown' = [upsAtDown EXCEPT ![t] = ups]
    /\ IF CanAcquire(capacityLeft)
       THEN /\ capacityLeft' = capacityLeft - 1
            /\ status' = [status EXCEPT ![t] = "passed"]
            /\ jobs' = Append(jobs, t)
            /\ streak' = StreakAfterDown(TRUE)
            /\ UNCHANGED <<queue, arrivals, posAtQueue>>
       ELSE /\ queue' = Append(queue, t)
            /\ status' = [status EXCEPT ![t] = "waiting"]
            /\ arrivals' = Append(arrivals, t)
            /\ posAtQueue' = [posAtQueue EXCEPT ![t] = Len(queue) + 1]
            /\ streak' = StreakAfterDown(FALSE)
            /\ UNCHANGED <<capacityLeft, jobs>>
    /\ UNCHANGED <<capacity, results, ups>>

\* the body of up(), run by a caller whose own status becomes st
upNoHandOff(st) ==
    /\ ups' = ups + 1
    /\ streak' = StreakAfterUp
    /\ capacityLeft' = capacityLeft + 1
    /\ IF queue = <<>>
       THEN /\ status' = st
            /\ UNCHANGED <<queue, jobs>>
       ELSE /\ queue' = shift(queue).rest
            /\ status' = st
            /\ UNCHANGED jobs
    /\ UNCHANGED <<capacity, results, arrivals, upsAtDown, posAtQueue>>

upLosesUnit(st) ==
    /\ ups' = ups + 1
    /\ streak' = StreakAfterUp
    /\ IF queue = <<>>
       THEN /\ status' = st
            /\ UNCHANGED <<capacityLeft, queue, jobs>>
       ELSE /\ queue' = shift(queue).rest
            /\ status' = [st EXCEPT ![shift(queue).next] = "woken"]
            /\ jobs' = Append(jobs, shift(queue).next)
            /\ UNCHANGED capacityLeft
    /\ UNCHANGED <<capacity, results, arrivals, upsAtDown, posAtQueue>>

upCascade(st) ==
    /\ ups' = ups + 1
    /\ streak' = StreakAfterUp
    /\ IF queue = <<>>
       THEN /\ capacityLeft' = capacityLeft + 1
            /\ status' = st
            /\ UNCHANGED <<queue, jobs>>
       ELSE /\ queue' = <<>>
            /\ status' = [t \in Tasks |->
                            IF st[t] = "waiting" THEN "woken" ELSE st[t]]
            /\ jobs' = jobs \o queue
            /\ UNCHANGED capacityLeft
    /\ UNCHANGED <<capacity, results, arrivals, upsAtDown, posAtQueue>>

upEffect(st) ==
    /\ ups' = ups + 1
    /\ streak' = StreakAfterUp
    /\ IF queue = <<>>
       THEN /\ capacityLeft' = capacityLeft + 1
            /\ status' = st
            /\ UNCHANGED <<queue, jobs>>
       ELSE LET next == shift(queue).next IN
            /\ queue' = shift(queue).rest
            \* next(): resolving a promise a second time has no effect
            /\ IF st[next] = "waiting"
               THEN /\ status' = [st EXCEPT ![next] = "woken"]
                    /\ jobs' = Append(jobs, next)
               ELSE /\ status' = st
                    /\ UNCHANGED jobs
            /\ UNCHANGED capacityLeft
    /\ UNCHANGED <<capacity, results, arrivals, upsAtDown, posAtQueue>>

\* semaphore.up() called by the test driver
up ==
    /\ ups < MaxUps
    /\ upEffect(status)

\* the continuation of the caller at the head of the microtask queue
resume ==
    /\ jobs # <<>>
    /\ jobs' = Tail(jobs)
    /\ status' = [status EXCEPT ![Head(jobs)] = "held"]
    /\ results' = Append(results, Head(jobs))
    /\ UNCHANGED <<capacity, capacityLeft, queue, arrivals, ups, upsAtDown,
                   posAtQueue, streak>>

\* a task of the demo or of the concurrency tests: its work is over, it
\* calls up() and finishes
taskUp(t) ==
    /\ status[t] = "held"
    /\ upEffect([status EXCEPT ![t] = "done"])

\* ---- specifications ----

InitWith(caps) ==
    /\ capacity \in caps
    /\ capacityLeft = constructor(capacity).capacityLeft
    /\ queue = constructor(capacity).queue
    /\ status = [t \in Tasks |-> "idle"]
    /\ jobs = <<>>
    /\ results = <<>>
    /\ arrivals = <<>>
    /\ ups = 0
    /\ upsAtDown = [t \in Tasks |-> 0]
    /\ posAtQueue = [t \in Tasks |-> 0]
    /\ streak = NoStreak

\* free driver: any integer capacity, down() and up() in any order
Init == InitWith((0 - MaxNeg)..MaxCap)

Next ==
    \/ \E t \in Tasks : down(t)
    \/ up
    \/ resume

Spec == Init /\ [][Next]_vars

\* tasks that pair every up() with their own completed down()
InitTasks == InitWith(0..MaxCap)

NextTasks ==
    \/ \E t \in Tasks : down(t)
    \/ \E t \in Tasks : taskUp(t)
    \/ resume

SpecTasks == InitTasks /\ [][NextTasks]_vars

\* the event loop runs every job and fires every timer
FairSpecTasks == SpecTasks /\ WF_vars(NextTasks)

\* ---- helpers of the properties ----

Range(s) == {s[i] : i \in 1..Len(s)}

TypeOK ==
    /\ capacity \in (0 - MaxNeg)..MaxCap
    /\ capacityLeft \in Int
    /\ queue \in Seq(Tasks)
    /\ status \in [Tasks -> {"idle", "passed", "waiting", "woken", "held", "done"}]
    /\ jobs \in Seq(Tasks)
    /\ results \in Seq(Tasks)
    /\ arrivals \in Seq(Tasks)
    /\ ups \in Nat

Called == {t \in Tasks : status[t] # "idle"}

\* the callers whose down() returned without a promise
Immediate == {t \in Called : t \notin Range(arrivals)}

\* the callers whose promise has been resolved by an up()
Resolved == {t \in Range(arrivals) : status[t] # "waiting"}

\* the callers that hold a unit: down() completed, up() not yet called
Holders == {t \in Tasks : status[t] \in {"passed", "woken", "held"}}

AllDone == \A t \in Tasks : status[t] = "done"

Count(s, t) == Cardinality({i \in 1..Len(s) : s[i] = t})

IsPrefix(s, r) == Len(s) <= Len(r) /\ \A i \in 1..Len(s) : s[i] = r[i]

\* the suspended callers in the order their continuation ran
WakeOrder == SelectSeq(results, LAMBDA t : t \in Range(arrivals))

\* ---- C1 ----
\* C1: with capacity C >= 0 and tasks that run down() -> work -> up(), the
\* number of tasks whose down() has completed and that have not yet called
\* up() is at most C in every reachable state.
C1_BoundedConcurrency == Cardinality(Holders) <= capacity

C1_Witness ==
    /\ capacity >= 1
    /\ Cardinality(Holders) = capacity
    /\ queue # <<>>
    /\ \E t \in Tasks : status[t] = "done"

\* ---- C2 ----
\* C2: suspended callers are resumed in the order in which they suspended:
\* the promises are resolved in arrival order and the continuations run in
\* arrival order, whatever happens between the up() calls.
C2_FifoWakeUp ==
    /\ IsPrefix(WakeOrder, arrivals)
    /\ \A i, j \in 1..Len(arrivals) :
          (i < j /\ arrivals[j] \in Resolved) => arrivals[i] \in Resolved

C2_Witness ==
    /\ Len(arrivals) >= 3
    /\ Len(WakeOrder) >= 3
    /\ arrivals[1] > arrivals[2]

\* ---- C3 ----
\* C3: K tasks against capacity C, 1 <= C < K, each doing down(), work, up():
\* under fair scheduling all K tasks finish, each completes its down() exactly
\* once, and no state with an unfinished task is a deadlock.
C3_CompletionNoDeadlock ==
    /\ (capacity \in 1..(NTasks - 1)) => <>AllDone
    /\ [](capacity \in 1..(NTasks - 1) =>
            /\ \A t \in Tasks : Count(results, t) <= 1
            /\ AllDone => \A t \in Tasks : Count(results, t) = 1
            /\ ~AllDone => ENABLED NextTasks)

C3_Witness ==
    /\ capacity \in 1..(NTasks - 1)
    /\ AllDone
    /\ Len(arrivals) >= 2

\* ---- C4 ----
\* C4: one up() resolves at most one suspended down(), and only an up() does:
\* the number of resolved waiters never exceeds the number of up() calls, and
\* a waiter pushed at position N of the queue is resolved once N up() calls
\* have been made after it queued.
C4_OneWakePerUp ==
    /\ [][LET woken == {t \in Tasks : status[t] = "waiting" /\ status'[t] # "waiting"}
          IN  /\ Cardinality(woken) <= 1
              /\ woken # {} => ups' = ups + 1]_vars
    /\ [](Cardinality(Resolved) <= ups)
    /\ [](\A t \in Range(arrivals) :
             ups - upsAtDown[t] >= posAtQueue[t] => t \in Resolved)

C4_Witness ==
    \E t, u \in Tasks :
        /\ posAtQueue[t] = 1 /\ posAtQueue[u] = 3
        /\ upsAtDown[t] = upsAtDown[u]
        /\ ups = upsAtDown[u] + 3
        /\ u \in Resolved

\* ---- C5 ----
\* C5: a suspended down() stays incomplete until an up() dequeues it: the
\* waiter pushed at position i is not resolved before the i-th up() made
\* after it queued, and a step that is not an up() leaves every waiter
\* suspended.
C5_NoWakeWithoutUp ==
    /\ [](\A t \in Resolved : ups - upsAtDown[t] >= posAtQueue[t])
    /\ [][\A t \in Tasks :
            (status[t] = "waiting" /\ ups' = ups) =>
                (status'[t] = "waiting" /\ t \in Range(queue'))]_vars

C5_Witness ==
    \E t, u \in Tasks :
        /\ posAtQueue[t] = 2 /\ status[t] = "held"
        /\ posAtQueue[u] = 2 /\ status[u] = "waiting"
        /\ ups - upsAtDown[u] = 1

\* ---- C6 ----
\* C6 as stated: from any state with an empty queue, N consecutive up()
\* calls add exactly N to capacityLeft, and the N down() calls that follow
\* all complete immediately.
C6_Original ==
    streak.n > 0 =>
        /\ streak.d = 0 => capacityLeft = streak.base + streak.n
        /\ streak.ok

\* C6: from any state with an empty queue, N consecutive up() calls add
\* exactly N to capacityLeft; when capacityLeft was at least 0 before them,
\* the N down() calls that follow all complete immediately.
C6_OverRelease ==
    streak.n > 0 =>
        /\ streak.d = 0 => capacityLeft = streak.base + streak.n
        /\ streak.base >= 0 => streak.ok

C6_Witness ==
    /\ streak.n >= 3
    /\ streak.n > capacity
    /\ capacity >= 1
    /\ streak.d = streak.n
    /\ streak.ok

\* ---- C7 ----
\* C7: for capacity C >= 1, the first C down() calls made before any up()
\* all return immediately, nothing is queued, and after the C-th of them
\* capacityLeft is 0.
C7_ImmediateAcquisition ==
    (capacity >= 1 /\ ups = 0 /\ Cardinality(Called) <= capacity) =>
        /\ Immediate = Called
        /\ queue = <<>>
        /\ capacityLeft = capacity - Cardinality(Called)

C7_Witness ==
    /\ capacity >= 2
    /\ ups = 0
    /\ Cardinality(Called) = capacity
    /\ capacityLeft = 0
    /\ queue = <<>>

\* ---- C8 ----
\* C8: with capacity 0, every down() made before any up() is suspended;
\* after exactly one up() made while callers were pending, the earliest
\* queued caller is resolved and every other caller is suspended.
C8_ZeroCapacity ==
    capacity = 0 =>
        /\ ups = 0 => \A t \in Called : status[t] = "waiting"
        /\ (ups = 1 /\ \E t \in Range(arrivals) : upsAtDown[t] = 0) =>
              /\ Resolved = {arrivals[1]}
              /\ \A t \in Called \ {arrivals[1]} : status[t] = "waiting"

C8_Witness ==
    /\ capacity = 0
    /\ ups = 1
    /\ Len(arrivals) >= 3
    /\ upsAtDown[arrivals[2]] = 0
    /\ upsAtDown[arrivals[3]] = 1
    /\ status[arrivals[1]] = "held"

\* ---- C9 ----
\* C9 as stated: for any integer capacity, the queue is non-empty only when
\* capacityLeft is exactly 0.
C9_Original == queue # <<>> => capacityLeft = 0

\* C9: the queue is non-empty only when capacityLeft is at most 0, and
\* exactly 0 when the semaphore was created with a capacity of at least 0.
C9_QueueOnlyWhenDepleted ==
    queue # <<>> =>
        /\ capacityLeft <= 0
        /\ capacity >= 0 => capacityLeft = 0

C9_Witness ==
    /\ capacity < 0
    /\ capacityLeft < 0
    /\ capacityLeft > capacity
    /\ queue # <<>>

\* ---- C10 ----
\* C10 as stated: with capacity -n, no down() returns immediately before n
\* up() calls have been made, and a down() made on an empty queue after n
\* up() calls returns immediately.
C10_Original ==
    capacity < 0 =>
        \A t \in Called :
            /\ t \in Immediate => upsAtDown[t] >= 0 - capacity
            /\ (upsAtDown[t] >= 0 - capacity /\ posAtQueue[t] <= 1) =>
                  t \in Immediate

\* the same with n + 1 up() calls, still for any down() made on an empty queue
C10_EmptyQueueOnly ==
    capacity < 0 =>
        \A t \in Called :
            (upsAtDown[t] >= 1 - capacity /\ posAtQueue[t] <= 1) =>
                t \in Immediate

\* C10: with capacity -n, no down() returns immediately before n + 1 up()
\* calls have been made, and the first down() of all, when made after
\* n + 1 up() calls, returns immediately.
C10_NegativeCapacity ==
    capacity < 0 =>
        \A t \in Called :
            /\ t \in Immediate => upsAtDown[t] >= 1 - capacity
            /\ (upsAtDown[t] >= 1 - capacity /\ Called = {t}) =>
                  t \in Immediate

C10_Witness ==
    /\ capacity = -2
    /\ \E t \in Tasks :
          /\ Called = {t}
          /\ upsAtDown[t] = 3
          /\ t \in Immediate

\* a step in which caller t calls down()
DownStep(t) == status[t] = "idle" /\ status'[t] # "idle"

\* position of caller t in the sequence s (0 when absent)
Pos(s, t) == IF t \in Range(s) THEN CHOOSE i \in 1..Len(s) : s[i] = t ELSE 0

\* ---- C11 ----
\* C11: every down() call completes at most once, and every resolver pushed
\* on the queue is invoked exactly once, by the up() that removes it: a call
\* is at every moment in exactly one of the queue, the microtask queue and
\* the completed calls, and a resolver leaves the queue only in an up() that
\* resolves its promise and schedules its continuation once.
C11_ExactlyOnce ==
    /\ [](\A t \in Tasks :
            /\ Count(results, t) <= 1
            /\ Count(queue, t) + Count(jobs, t) + Count(results, t)
                  = IF t \in Called THEN 1 ELSE 0
            /\ t \in Range(queue) <=> status[t] = "waiting")
    /\ [][\A t \in Tasks :
            (t \in Range(queue) /\ t \notin Range(queue')) =>
                /\ ups' = ups + 1
                /\ status'[t] = "woken"
                /\ Count(jobs', t) = 1]_vars

C11_Witness ==
    /\ Len(arrivals) >= 3
    /\ Len(queue) = 1
    /\ Cardinality(Resolved) >= 2
    /\ \E t \in Resolved : status[t] = "held"
    /\ \E t \in Resolved : status[t] = "woken"

\* ---- C12 ----
\* C12: down() runs without interleaving, so two tasks calling down() while
\* exactly one unit is free never both obtain it: the call made with
\* capacityLeft = 1 takes it and leaves 0, the call made with capacityLeft = 0
\* is queued, and a semaphore created with C >= 1 units never grants more
\* than C of them before the first up().
C12_NoDoubleTake ==
    /\ [][\A t \in Tasks : DownStep(t) =>
            /\ capacityLeft = 1 =>
                  (capacityLeft' = 0 /\ status'[t] = "passed" /\ queue' = queue)
            /\ capacityLeft = 0 =>
                  (capacityLeft' = 0 /\ status'[t] = "waiting"
                     /\ queue' = Append(queue, t))]_vars
    /\ [](capacityLeft >= 0)
    /\ []((capacity >= 1 /\ ups = 0 /\ Cardinality(Called) > capacity) =>
             /\ Cardinality(Immediate) = capacity
             /\ capacityLeft = 0
             /\ Range(queue) = Called \ Immediate)

C12_Witness ==
    /\ capacity = 1
    /\ ups = 0
    /\ capacityLeft = 0
    /\ \E t, u \in Tasks :
          /\ t # u
          /\ status[t] = "passed"
          /\ status[u] = "waiting"
          /\ queue = <<u>>

\* ---- C13 ----
\* C13: a down() call does one of two things, chosen by capacityLeft at the
\* call: with capacityLeft > 0 it takes 1 from capacityLeft and leaves the
\* queue alone; otherwise it appends its resolver at the tail of the queue
\* and leaves capacityLeft and the entries already queued alone.
C13_AcquireStep ==
    [][\A t \in Tasks : DownStep(t) =>
          IF capacityLeft > 0
          THEN /\ capacityLeft' = capacityLeft - 1
               /\ queue' = queue
               /\ status'[t] = "passed"
          ELSE /\ capacityLeft' = capacityLeft
               /\ queue' = Append(queue, t)
               /\ status'[t] = "waiting"]_vars

C13_Witness ==
    /\ capacity = 2
    /\ Cardinality(Immediate) = 2
    /\ Len(queue) >= 1
    /\ ups = 0

\* ---- C14 ----
\* C14: an up() call does one of two things, chosen by the queue at the call:
\* on an empty queue it adds 1 to capacityLeft and the queue stays empty;
\* otherwise it removes exactly the front resolver and resumes its caller,
\* leaving capacityLeft and the order of the other entries alone.
C14_ReleaseStep ==
    [][ups' = ups + 1 =>
          IF queue = <<>>
          THEN /\ capacityLeft' = capacityLeft + 1
               /\ queue' = <<>>
               /\ jobs' = jobs
          ELSE /\ capacityLeft' = capacityLeft
               /\ queue' = Tail(queue)
               /\ status'[Head(queue)] = "woken"
               /\ jobs' = Append(jobs, Head(queue))]_vars

C14_Witness ==
    /\ capacity < 0
    /\ capacityLeft > capacity
    /\ Len(arrivals) >= 3
    /\ Cardinality(Resolved) = 1
    /\ Len(queue) = 2

\* ---- C15 ----
\* C15: for every integer capacity and after any sequence of down() and up()
\* calls, capacityLeft > 0 and a non-empty queue never occur together.
C15_CountQueueExclusive == ~(capacityLeft > 0 /\ queue # <<>>)

C15_Witness ==
    /\ capacityLeft > 0
    /\ queue = <<>>
    /\ Len(arrivals) >= 2
    /\ capacity <= 0

\* ---- C16 ----
\* C16: capacityLeft = C - (down() calls granted, at once or by hand-off)
\* + (up() calls made); with every up() paired with a granted down(),
\* capacityLeft plus the number of held units is C in every reachable state.
C16_UnitConservation ==
    /\ capacityLeft =
          capacity - (Cardinality(Immediate) + Cardinality(Resolved)) + ups
    /\ capacityLeft + Cardinality(Holders) = capacity

\* the first half alone, for the free driver and any integer capacity
C16_FreeDriver ==
    capacityLeft =
        capacity - (Cardinality(Immediate) + Cardinality(Resolved)) + ups

C16_Witness ==
    /\ capacity = 2
    /\ ups >= 2
    /\ Cardinality(Resolved) >= 1
    /\ Cardinality(Holders) = 1
    /\ capacityLeft = 1

\* ---- C17 ----
\* C17: on a semaphore of capacity 1 the sequence down, up, down, up, down
\* suspends no call and ends with capacityLeft = 0 and an empty queue, the
\* state of a single outstanding acquisition.
RapidCycle ==
    /\ capacity = 1
    /\ ups = 2
    /\ Cardinality(Called) = 3
    /\ {upsAtDown[t] : t \in Called} = {0, 1, 2}

C17_RapidCycling ==
    RapidCycle =>
        /\ arrivals = <<>>
        /\ capacityLeft = capacity - 1
        /\ queue = <<>>

C17_Witness ==
    /\ RapidCycle
    /\ \A t \in Called : status[t] = "held"
    /\ capacityLeft = 0

\* ---- C18 ----
\* C18: while a waiter is queued no new down() returns immediately; a down()
\* that returns immediately finds every earlier waiter already resolved, and
\* its continuation runs after those of the waiters resolved before it, also
\* when it is called between an up() and the resumption of the waiter that
\* up() dequeued.
C18_NoBarging ==
    /\ [][\A t \in Tasks : (DownStep(t) /\ queue # <<>>) =>
              (status'[t] = "waiting" /\ queue' = Append(queue, t))]_vars
    /\ [][\A t \in Tasks : (DownStep(t) /\ status'[t] = "passed") =>
              /\ Range(arrivals) = Resolved
              /\ \A w \in Tasks : status[w] = "woken" =>
                    (Pos(jobs', w) > 0 /\ Pos(jobs', w) < Pos(jobs', t))]_vars
    /\ [](\A t \in Immediate, w \in Range(arrivals) :
             (Pos(results, t) > 0
                /\ upsAtDown[t] >= upsAtDown[w] + posAtQueue[w])
             => (Pos(results, w) > 0 /\ Pos(results, w) < Pos(results, t)))

C18_Witness ==
    \E t \in Immediate, w \in Resolved :
        /\ upsAtDown[t] > upsAtDown[w]
        /\ status[w] = "woken"
        /\ status[t] = "passed"
        /\ Pos(jobs, w) < Pos(jobs, t)

\* ---- C19 ----
\* C19: when K tasks each do one down() and, after it completed, one up() on
\* a semaphore of capacity C >= 1, then once all K tasks have finished the
\* semaphore is back in its initial state: capacityLeft = C, empty queue.
C19_QuiescentRestored ==
    (capacity >= 1 /\ AllDone) =>
        /\ capacityLeft = capacity
        /\ queue = <<>>
        /\ jobs = <<>>

C19_Witness ==
    /\ capacity = 1
    /\ AllDone
    /\ Len(arrivals) = NTasks - 1
    /\ capacityLeft = 1

====
